---- MODULE Spec2Model ----
(***************************************************************************)
(* OpenSearchService (search_sync_worker): the service's operations on a   *)
(* search engine holding versioned physical indices, aliases and           *)
(* documents.  The engine is the environment: every request is applied     *)
(* atomically or rejected, and any request may fail with a transport or    *)
(* server error (the choice "fault").                                      *)
(***************************************************************************)
EXTENDS Integers, Sequences, FiniteSets, TLC

\* ------------------------------------------------------------------ bounds
\* Index versions range over 1..MaxVersion.
MaxVersion == 2
\* At most MaxIndices physical indices exist in the engine at a time.
MaxIndices == 2
\* A bulk request carries at most MaxBatch documents.
MaxBatch == 2

\* ------------------------------------------------------------- basic values
\* The two logical indices initialize() verifies.
OpenSearchIndex == {"members", "activities"}
Versions == 1..MaxVersion
\* Document ids and document bodies the callers use.
Ids == {"d1", "d2"}
Bodies == {"A", "B"}
\* JavaScript's undefined and null.
Undefined == "undefined"
Null == "null"
NoDoc == "absent"
\* The status the delete handler treats as success.
NotFound == 404
\* The service instances (processes) that may run initialize().
Workers == {"w1", "w2"}

\* `${indexName}_v${version}`
VersionedName(indexName, version) == indexName \o "_v" \o ToString(version)
\* Every physical index name the service can form.
Physical == {VersionedName(l, v) : l \in OpenSearchIndex, v \in Versions}

VARIABLES
  IS_DEV_ENV,      \* the environment flag (fixed for a run)
  IndexVersions,   \* logical index -> configured version (fixed for a run)
  indices,         \* engine: the physical indices that exist
  aliases,         \* engine: physical index -> the alias names bound to it
  stored,          \* engine: physical index -> id -> body written (or NoDoc)
  searchable,      \* engine: physical index -> id -> body visible to search
  autoCreate,      \* engine: cluster setting action.auto_create_index
  init,            \* worker -> the position of its initialize() call
  last             \* the last completed engine call and what its caller got

vars == <<IS_DEV_ENV, IndexVersions, indices, aliases, stored, searchable,
          autoCreate, init, last>>
config == <<IS_DEV_ENV, IndexVersions>>
engine == <<indices, aliases, stored, searchable, autoCreate>>

NoDocs == [id \in Ids |-> NoDoc]

\* ------------------------------------------------------- engine: topology
\* The physical indices an alias name resolves to.
ResolveAlias(al, aliasName) == {n \in Physical : aliasName \in al[n]}
\* HEAD /{index}
EngineIndexExists(indexName) == indexName \in indices
\* HEAD /_alias/{name}
EngineAliasExists(aliasName) == ResolveAlias(aliases, aliasName) # {}
\* HEAD /{index}/_alias/{name}
EngineAliasOnIndex(indexName, aliasName) ==
  indexName \in indices /\ aliasName \in aliases[indexName]

\* One action of an alias update applied to the alias table.
ApplyAliasAction(al, act) ==
  IF act.type = "remove"
    THEN [n \in Physical |->
            IF act.index = "*" \/ act.index = n THEN al[n] \ {act.alias} ELSE al[n]]
    ELSE [al EXCEPT ![act.index] = @ \cup {act.alias}]
RECURSIVE ApplyAliasActions(_, _)
ApplyAliasActions(al, actions) ==
  IF actions = <<>> THEN al
  ELSE ApplyAliasActions(ApplyAliasAction(al, Head(actions)), Tail(actions))
\* The engine rejects the whole update when an action names a missing index.
AliasActionsValid(actions) ==
  \A k \in 1..Len(actions) :
    actions[k].index = "*" \/ actions[k].index \in indices

\* The last completed call: the method and its arguments, the request it
\* sent, what the call is about in the engine as it was when the request
\* arrived (before), the engine's status and response, and whether the method
\* returned ("ok") or threw ("raised"), with the value it returned.
None == [kind |-> "none"]
Call(op, args, request, before, status, response, outcome, result) ==
  [op |-> op, args |-> args, request |-> request, before |-> before,
   status |-> status, response |-> response, outcome |-> outcome,
   result |-> result]
NoCall == Call("none", None, None, None, 200, None, "ok", None)
\* A catch block that logs and returns.
Rethrow_Swallow(status) == "ok"
\* Every handler but two rethrows what the engine call threw.
Rethrow(status) == IF status = 200 THEN "ok" ELSE "raised"

\* ----------------------------------------------- Index Topology Manager
createIndexWithVersion(indexName, version) ==
  \E fault \in BOOLEAN :
    LET name == VersionedName(indexName, version)
        status == IF fault THEN 503 ELSE IF name \in indices THEN 400 ELSE 200
    IN /\ Cardinality(indices) < MaxIndices \/ status # 200
       /\ indices' = IF status = 200 THEN indices \cup {name} ELSE indices
       /\ last' = Call("createIndexWithVersion", None, None, None, status, None,
                       Rethrow(status), None)
       /\ UNCHANGED <<config, aliases, stored, searchable, autoCreate, init>>

createAlias(indexName, aliasName) ==
  \E fault \in BOOLEAN :
    LET status == IF fault THEN 503 ELSE IF indexName \notin indices THEN 404 ELSE 200
    IN /\ aliases' = IF status = 200
                       THEN [aliases EXCEPT ![indexName] = @ \cup {aliasName}]
                       ELSE aliases
       /\ last' = Call("createAlias", None, None, None, status, None,
                       Rethrow(status), None)
       /\ UNCHANGED <<config, indices, stored, searchable, autoCreate, init>>

\* An update that adds the alias to the target and removes it nowhere.
AliasUpdateActions_AddOnly(indexName, aliasName) ==
  << [type |-> "add", index |-> indexName, alias |-> aliasName] >>
\* The first half of a repoint sent as two requests: the removal alone.
AliasUpdateActions_RemoveOnly(indexName, aliasName) ==
  << [type |-> "remove", index |-> "*", alias |-> aliasName] >>
\* The body of the updateAliases request.
AliasUpdateActions(indexName, aliasName) ==
  << [type |-> "remove", index |-> "*", alias |-> aliasName],
     [type |-> "add", index |-> indexName, alias |-> aliasName] >>

\* A catch block that rethrows what updateAliases threw.
RepointOutcome_Rethrow(status) == IF status = 200 THEN "ok" ELSE "raised"
\* The catch block of pointAliasToCorrectIndex logs and does not rethrow.
RepointOutcome(status) == "ok"

pointAliasToCorrectIndex(indexName, aliasName) ==
  \E fault \in BOOLEAN :
    LET actions == AliasUpdateActions(indexName, aliasName)
        status == IF fault THEN 503
                  ELSE IF ~AliasActionsValid(actions) THEN 404 ELSE 200
    IN /\ aliases' = IF status = 200 THEN ApplyAliasActions(aliases, actions)
                     ELSE aliases
       /\ last' = Call("pointAliasToCorrectIndex",
                       [indexName |-> indexName, aliasName |-> aliasName],
                       [actions |-> actions],
                       [resolved |-> ResolveAlias(aliases, aliasName)],
                       status, None, RepointOutcome(status), None)
       /\ UNCHANGED <<config, indices, stored, searchable, autoCreate, init>>

\* Reindex copies the documents search sees in the source into the target,
\* overwriting by id, and refreshes the target.
ReindexInto(target, source) ==
  [id \in Ids |-> IF source[id] # NoDoc THEN source[id] ELSE target[id]]

reIndex(sourceIndex, targetIndex) ==
  \E fault \in BOOLEAN :
    LET status == IF fault THEN 503
                  ELSE IF sourceIndex \notin indices THEN 404
                  ELSE IF sourceIndex = targetIndex THEN 400
                  ELSE IF targetIndex \notin indices /\ ~autoCreate THEN 404
                  ELSE 200
        copied == ReindexInto(stored[targetIndex], searchable[sourceIndex])
    IN /\ Cardinality(indices \cup {targetIndex}) <= MaxIndices \/ status # 200
       /\ IF status = 200
            THEN /\ indices' = indices \cup {targetIndex}
                 /\ stored' = [stored EXCEPT ![targetIndex] = copied]
                 /\ searchable' = [searchable EXCEPT ![targetIndex] = copied]
            ELSE UNCHANGED <<indices, stored, searchable>>
       /\ last' = Call("reIndex", None, None, None, status, None, Rethrow(status), None)
       /\ UNCHANGED <<config, aliases, autoCreate, init>>

deleteIndex(indexName) ==
  \E fault \in BOOLEAN :
    LET status == IF fault THEN 503 ELSE IF indexName \notin indices THEN 404 ELSE 200
    IN /\ IF status = 200
            THEN /\ indices' = indices \ {indexName}
                 /\ aliases' = [aliases EXCEPT ![indexName] = {}]
                 /\ stored' = [stored EXCEPT ![indexName] = NoDocs]
                 /\ searchable' = [searchable EXCEPT ![indexName] = NoDocs]
            ELSE UNCHANGED <<indices, aliases, stored, searchable>>
       /\ last' = Call("deleteIndex", None, None, None, status, None,
                       Rethrow(status), None)
       /\ UNCHANGED <<config, autoCreate, init>>

\* The settings, the mappings and the mapping update of the configured
\* physical index: the engine answers 404 when the index is missing.  The
\* schema itself is not part of the state.
SchemaRequest(indexName) == [index |-> VersionedName(indexName, IndexVersions[indexName])]

getIndexSettings(indexName) ==
  \E fault \in BOOLEAN :
    LET request == SchemaRequest(indexName)
        status == IF fault THEN 503 ELSE IF request.index \notin indices THEN 404 ELSE 200
    IN /\ last' = Call("getIndexSettings", [logical |-> indexName], request, None,
                       status, None, Rethrow(status),
                       IF status = 200 THEN [kind |-> "settings"] ELSE None)
       /\ UNCHANGED <<config, engine, init>>

getIndexMappings(indexName) ==
  \E fault \in BOOLEAN :
    LET request == SchemaRequest(indexName)
        status == IF fault THEN 503 ELSE IF request.index \notin indices THEN 404 ELSE 200
    IN /\ last' = Call("getIndexMappings", [logical |-> indexName], request, None,
                       status, None, Rethrow(status),
                       IF status = 200 THEN [kind |-> "mappings"] ELSE None)
       /\ UNCHANGED <<config, engine, init>>

setIndexMappings(indexName) ==
  \E fault \in BOOLEAN :
    LET request == SchemaRequest(indexName)
        status == IF fault THEN 503 ELSE IF request.index \notin indices THEN 404 ELSE 200
    IN /\ last' = Call("setIndexMappings", [logical |-> indexName], request, None,
                       status, None, Rethrow(status), None)
       /\ UNCHANGED <<config, engine, init>>

\* ------------------------------------------------------ Bootstrap Verifier
\* An initialize() that turns auto-creation off only after its checks.
InitializeProgram_SettingsLast == <<"members", "activities", "putSettings">>
\* initialize() awaits these in order: the cluster setting, then
\* ensureIndexAndAliasExists for MEMBERS and for ACTIVITIES.
InitializeProgram == <<"putSettings", "members", "activities">>

\* The engine call initialize() awaits when it enters step k of its program.
Entry(k) ==
  IF k > Len(InitializeProgram) THEN "Ready"
  ELSE IF InitializeProgram[k] = "putSettings" THEN "putSettings"
  ELSE "doesIndexExist"

\* A worker's position: the call it awaits (pc), the step of the program, the
\* three flags ensureIndexAndAliasExists has read so far, how it ended, and
\* the engine calls it has issued so far with the status each was answered.
At(pc, step, indexExists, aliasExists, aliasPointsToIndex, error) ==
  [pc |-> pc, step |-> step, indexExists |-> indexExists,
   aliasExists |-> aliasExists, aliasPointsToIndex |-> aliasPointsToIndex,
   error |-> error, calls |-> <<>>]
NotStarted == At("start", 0, FALSE, FALSE, FALSE, "none")
Enter(k) == At(Entry(k), IF k > Len(InitializeProgram) THEN 0 ELSE k,
               FALSE, FALSE, FALSE, "none")
\* initialize() rejects: with the engine's error, or with the strict check's.
Abort(error) == At("Aborted", 0, FALSE, FALSE, FALSE, error)

\* The logical index step k verifies, its alias and its physical index.
StepIndex(w) == InitializeProgram[init[w].step]
StepIndexNameWithVersion(w) == VersionedName(StepIndex(w), IndexVersions[StepIndex(w)])

\* Worker w has issued one more call; position is where the call leaves it.
Issued(w, call, status, position) ==
  [position EXCEPT !.calls =
     Append(init[w].calls, [call |-> call, index |-> StepIndex(w), status |-> status])]

\* A strict-mode test that forgets the binding of the alias.
StrictCheckFails_NoBinding(indexExists, aliasExists, aliasPointsToIndex) ==
  ~aliasExists \/ ~indexExists
\* The strict-mode test of ensureIndexAndAliasExists.
StrictCheckFails(indexExists, aliasExists, aliasPointsToIndex) ==
  ~aliasExists \/ ~indexExists \/ ~aliasPointsToIndex

\* A permissive branch that creates nothing.
AfterChecks_NoCreate(w, aliasPointsToIndex) ==
  LET s == init[w] IN
  IF IS_DEV_ENV
    THEN Enter(s.step + 1)
    ELSE IF StrictCheckFails(s.indexExists, s.aliasExists, aliasPointsToIndex)
           THEN Abort("configuration")
           ELSE Enter(s.step + 1)
\* A strict branch that creates the missing index before it tests.
AfterChecks_StrictCreates(w, aliasPointsToIndex) ==
  LET s == init[w] IN
  IF ~s.indexExists
    THEN [s EXCEPT !.pc = "createIndexWithVersion",
                   !.aliasPointsToIndex = aliasPointsToIndex]
    ELSE IF ~IS_DEV_ENV /\ StrictCheckFails(s.indexExists, s.aliasExists, aliasPointsToIndex)
           THEN Abort("configuration")
           ELSE Enter(s.step + 1)
\* A strict branch that checks the same index again when its test fails.
AfterChecks_Retry(w, aliasPointsToIndex) ==
  LET s == init[w] IN
  IF IS_DEV_ENV
    THEN IF ~s.indexExists
           THEN [s EXCEPT !.pc = "createIndexWithVersion",
                          !.aliasPointsToIndex = aliasPointsToIndex]
           ELSE Enter(s.step + 1)
    ELSE IF StrictCheckFails(s.indexExists, s.aliasExists, aliasPointsToIndex)
           THEN Enter(s.step)
           ELSE Enter(s.step + 1)
\* The code that runs once the three flags are read, up to the next await.
AfterChecks(w, aliasPointsToIndex) ==
  LET s == init[w] IN
  IF IS_DEV_ENV
    THEN IF ~s.indexExists
           THEN [s EXCEPT !.pc = "createIndexWithVersion",
                          !.aliasPointsToIndex = aliasPointsToIndex]
           ELSE Enter(s.step + 1)
    ELSE IF StrictCheckFails(s.indexExists, s.aliasExists, aliasPointsToIndex)
           THEN Abort("configuration")
           ELSE Enter(s.step + 1)

\* A permissive branch that binds the missing alias to the physical index.
EnsureAlias_Create(al, indexNameWithVersion, aliasName, aliasExists) ==
  IF ~aliasExists
    THEN [al EXCEPT ![indexNameWithVersion] = @ \cup {aliasName}]
    ELSE al
\* The permissive branch for a missing alias: it logs, and sends nothing.
EnsureAlias(al, indexNameWithVersion, aliasName, aliasExists) == al

InitCall(request, status) ==
  Call("initialize", None, [call |-> request], None, status, None,
       Rethrow(status), None)

initialize(w) ==
  /\ init[w].pc = "start"
  /\ init' = [init EXCEPT ![w] = Enter(1)]
  /\ last' = InitCall("initialize", 200)
  /\ UNCHANGED <<config, engine>>

putSettings(w) ==
  /\ init[w].pc = "putSettings"
  /\ \E fault \in BOOLEAN :
       LET status == IF fault THEN 503 ELSE 200
       IN /\ autoCreate' = IF status = 200 THEN FALSE ELSE autoCreate
          /\ init' = [init EXCEPT ![w] =
                        Issued(w, "putSettings", status,
                               IF status = 200 THEN Enter(init[w].step + 1)
                               ELSE Abort("engine"))]
          /\ last' = InitCall("putSettings", status)
  /\ UNCHANGED <<config, indices, aliases, stored, searchable>>

doesIndexExist(w) ==
  /\ init[w].pc = "doesIndexExist"
  /\ \E fault \in BOOLEAN :
       LET status == IF fault THEN 503 ELSE 200
       IN /\ init' = [init EXCEPT ![w] =
                        Issued(w, "doesIndexExist", status,
                               IF status = 200
                                 THEN [@ EXCEPT !.pc = "doesAliasExist",
                                         !.indexExists = EngineIndexExists(StepIndexNameWithVersion(w))]
                                 ELSE Abort("engine"))]
          /\ last' = InitCall("doesIndexExist", status)
  /\ UNCHANGED <<config, engine>>

doesAliasExist(w) ==
  /\ init[w].pc = "doesAliasExist"
  /\ \E fault \in BOOLEAN :
       LET status == IF fault THEN 503 ELSE 200
       IN /\ init' = [init EXCEPT ![w] =
                        Issued(w, "doesAliasExist", status,
                               IF status = 200
                                 THEN [@ EXCEPT !.pc = "doesAliasPointToIndex",
                                         !.aliasExists = EngineAliasExists(StepIndex(w))]
                                 ELSE Abort("engine"))]
          /\ last' = InitCall("doesAliasExist", status)
  /\ UNCHANGED <<config, engine>>

\* The third check; when it answers, ensureIndexAndAliasExists runs on to its
\* next await: the permissive creation, or the first check of the next index.
doesAliasPointToIndex(w) ==
  /\ init[w].pc = "doesAliasPointToIndex"
  /\ \E fault \in BOOLEAN :
       LET status == IF fault THEN 503 ELSE 200
           points == EngineAliasOnIndex(StepIndexNameWithVersion(w), StepIndex(w))
       IN /\ init' = [init EXCEPT ![w] =
                        Issued(w, "doesAliasPointToIndex", status,
                               IF status = 200 THEN AfterChecks(w, points)
                               ELSE Abort("engine"))]
          /\ aliases' = IF status = 200 /\ IS_DEV_ENV /\ init[w].indexExists
                          THEN EnsureAlias(aliases, StepIndexNameWithVersion(w),
                                           StepIndex(w), init[w].aliasExists)
                          ELSE aliases
          /\ last' = InitCall("doesAliasPointToIndex", status)
  /\ UNCHANGED <<config, indices, stored, searchable, autoCreate>>

\* The createIndexWithVersion call of the permissive branch, and the alias
\* branch that follows it.
ensureCreateIndex(w) ==
  /\ init[w].pc = "createIndexWithVersion"
  /\ \E fault \in BOOLEAN :
       LET name == StepIndexNameWithVersion(w)
           status == IF fault THEN 503 ELSE IF name \in indices THEN 400 ELSE 200
       IN /\ indices' = IF status = 200 THEN indices \cup {name} ELSE indices
          /\ aliases' = IF status = 200
                          THEN EnsureAlias(aliases, name, StepIndex(w), init[w].aliasExists)
                          ELSE aliases
          /\ init' = [init EXCEPT ![w] =
                        Issued(w, "createIndexWithVersion", status,
                               IF status = 200 THEN Enter(init[w].step + 1)
                               ELSE Abort("engine"))]
          /\ last' = InitCall("createIndexWithVersion", status)
  /\ UNCHANGED <<config, stored, searchable, autoCreate>>

\* -------------------------------------------------------- Document Mutator
\* The engine makes the documents written to an index visible to search.
Refresh(se, st, target) == [se EXCEPT ![target] = st[target]]

\* The indices a request's index name stands for, among the indices ix and
\* under the alias table al: the index of that name, or else the indices an
\* alias of that name is bound to.
EngineResolve(ix, al, name) ==
  IF name \in ix THEN {name} ELSE ResolveAlias(al, name)
\* The one index a write to that name goes to (the name itself when nothing
\* or more than one index stands behind it).
EngineWriteIndex(ix, al, name) ==
  IF Cardinality(EngineResolve(ix, al, name)) = 1
    THEN CHOOSE n \in EngineResolve(ix, al, name) : TRUE
    ELSE name

RemoveRequest(id, logical) ==
  [id |-> id, index |-> VersionedName(logical, IndexVersions[logical]), refresh |-> TRUE]
\* A catch block that rethrows whatever the engine answered.
RemoveOutcome_Rethrow(status) == IF status = 200 THEN "ok" ELSE "raised"
\* The catch block of removeFromIndex: not-found returns, the rest throws.
RemoveOutcome(status) ==
  IF status = 200 \/ status = NotFound THEN "ok" ELSE "raised"

\* The engine's answer to a delete request under the alias table al, and the
\* engine's contents after it: not-found when the index or the document is
\* missing.
EngineDelete(al, request, fault) ==
  LET targets == EngineResolve(indices, al, request.index)
      target == EngineWriteIndex(indices, al, request.index)
      status == IF fault THEN 503
                ELSE IF targets = {} THEN 404
                ELSE IF Cardinality(targets) > 1 THEN 400
                ELSE IF stored[target][request.id] = NoDoc THEN 404
                ELSE 200
      after == IF status = 200 THEN [stored EXCEPT ![target][request.id] = NoDoc]
               ELSE stored
  IN [status |-> status, indices |-> indices, stored |-> after,
      searchable |-> IF status = 200 /\ request.refresh
                       THEN Refresh(searchable, after, target) ELSE searchable,
      response |-> None, result |-> None]

removeFromIndex(id, logical) ==
  \E fault \in BOOLEAN, request \in {RemoveRequest(id, logical)} :
    \E e \in {EngineDelete(aliases, request, fault)} :
      \* the previous call was this same delete, and it returned
      LET again == last.op = "removeFromIndex" /\ last.request = request
                   /\ last.outcome = "ok"
      IN /\ stored' = e.stored
         /\ searchable' = e.searchable
         /\ last' = Call("removeFromIndex", [id |-> id, logical |-> logical], request,
                         [again |-> again, doc |-> stored[request.index][id]],
                         e.status, None, RemoveOutcome(e.status), None)
         /\ UNCHANGED <<config, indices, aliases, autoCreate, init>>

\* An index request that leaves the refresh to the engine's own schedule.
IndexRequest_NoRefresh(id, logical, body) ==
  [id |-> id, index |-> VersionedName(logical, IndexVersions[logical]), body |-> body,
   refresh |-> FALSE]
IndexRequest(id, logical, body) ==
  [id |-> id, index |-> VersionedName(logical, IndexVersions[logical]), body |-> body,
   refresh |-> TRUE]

\* The engine's answer to an index request under the alias table al, and the
\* engine's contents after it: a missing index is created when automatic
\* creation is on and is an error otherwise.
EngineIndex(al, request, fault) ==
  LET targets == EngineResolve(indices, al, request.index)
      target == EngineWriteIndex(indices, al, request.index)
      status == IF fault THEN 503
                ELSE IF targets = {} /\ ~autoCreate THEN 404
                ELSE IF Cardinality(targets) > 1 THEN 400
                ELSE 200
      after == IF status = 200
                 THEN [stored EXCEPT ![target][request.id] = request.body]
                 ELSE stored
  IN [status |-> status,
      indices |-> IF status = 200 THEN indices \cup {target} ELSE indices,
      stored |-> after,
      searchable |-> IF status = 200 /\ request.refresh
                       THEN Refresh(searchable, after, target) ELSE searchable,
      response |-> None, result |-> None]

index(id, logical, body) ==
  \E fault \in BOOLEAN, request \in {IndexRequest(id, logical, body)} :
    \E e \in {EngineIndex(aliases, request, fault)} :
      /\ indices' = e.indices
      /\ stored' = e.stored
      /\ searchable' = e.searchable
      /\ last' = Call("index", [id |-> id, logical |-> logical, body |-> body],
                      request,
                      [exists |-> request.index \in indices, autoCreate |-> autoCreate],
                      e.status, None, Rethrow(e.status), None)
      /\ UNCHANGED <<config, aliases, autoCreate, init>>

\* A bulk body built back to front: the last document of the batch first.
RECURSIVE BulkBody_Reversed(_, _)
BulkBody_Reversed(logical, batch) ==
  IF batch = <<>> THEN <<>>
  ELSE BulkBody_Reversed(logical, Tail(batch))
       \o << [kind |-> "action",
               _index |-> VersionedName(logical, IndexVersions[logical]),
               _id |-> Head(batch).id, body |-> NoDoc],
              [kind |-> "source", _index |-> "", _id |-> "", body |-> Head(batch).body] >>
\* The bulk body: for each document of the batch, in order, the index-action
\* record and then the document body.
RECURSIVE BulkBody(_, _)
BulkBody(logical, batch) ==
  IF batch = <<>> THEN <<>>
  ELSE << [kind |-> "action",
           _index |-> VersionedName(logical, IndexVersions[logical]),
           _id |-> Head(batch).id, body |-> NoDoc],
          [kind |-> "source", _index |-> "", _id |-> "", body |-> Head(batch).body] >>
       \o BulkBody(logical, Tail(batch))

\* The engine applies the operations of a bulk body one pair at a time: an
\* operation on a missing index creates it when auto-creation is on and is
\* reported as a failed item otherwise.  acc = [indices, stored, failed].
RECURSIVE EngineBulk(_, _, _)
EngineBulk(al, acc, body) ==
  IF Len(body) < 2 THEN acc
  ELSE LET targets == EngineResolve(acc.indices, al, body[1]._index)
           target == EngineWriteIndex(acc.indices, al, body[1]._index)
           id == body[1]._id
           fails == (targets = {} /\ ~autoCreate) \/ Cardinality(targets) > 1
           applied == IF fails
                        THEN [acc EXCEPT !.failed = @ + 1]
                        ELSE [acc EXCEPT !.indices = @ \cup {target},
                                         !.stored[target][id] = body[2].body]
       IN EngineBulk(al, applied, SubSeq(body, 3, Len(body)))

BulkRequest(logical, batch) ==
  [body |-> BulkBody(logical, batch), refresh |-> TRUE]

\* The indices the index-actions of a bulk body name.
BulkTargets(body) ==
  {body[k]._index : k \in {j \in 1..Len(body) : body[j].kind = "action"}}

\* The engine's answer to a bulk request under the alias table al, and the
\* engine's contents after it: an empty body is rejected; otherwise the call
\* is answered 200 and the answer tells whether an item failed.
EngineBulkCall(al, request, fault) ==
  LET body == request.body
      status == IF fault THEN 503 ELSE IF body = <<>> THEN 400 ELSE 200
      start == [indices |-> indices, stored |-> stored, failed |-> 0]
      done == IF status = 200 THEN EngineBulk(al, start, body) ELSE start
      \* refresh: true refreshes the indices the request wrote to
      touched == UNION {EngineResolve(done.indices, al, n) : n \in BulkTargets(body)}
  IN [status |-> status, indices |-> done.indices, stored |-> done.stored,
      searchable |-> IF status = 200 /\ request.refresh
                       THEN [n \in Physical |->
                               IF n \in touched THEN done.stored[n] ELSE searchable[n]]
                       ELSE searchable,
      response |-> [errors |-> done.failed > 0], result |-> None]

\* A bulkIndex that reads the response and throws when an item failed.
BulkOutcome_Inspect(status, response) ==
  IF status # 200 \/ response.errors THEN "raised" ELSE "ok"
\* bulkIndex awaits the bulk call and drops its response: it throws exactly
\* when the call threw.
BulkOutcome(status, response) == IF status = 200 THEN "ok" ELSE "raised"

bulkIndex(logical, batch) ==
  \E fault \in BOOLEAN, request \in {BulkRequest(logical, batch)} :
    \E e \in {EngineBulkCall(aliases, request, fault)} :
      /\ indices' = e.indices
      /\ stored' = e.stored
      /\ searchable' = e.searchable
      \* the response's per-item results are not read
      /\ last' = Call("bulkIndex", [logical |-> logical, batch |-> batch],
                      request,
                      [exists |-> BulkTargets(request.body) \subseteq indices,
                       autoCreate |-> autoCreate],
                      e.status, e.response, BulkOutcome(e.status, e.response), None)
      /\ UNCHANGED <<config, aliases, autoCreate, init>>

\* ---------------------------------------------------------- Query Executor
\* JavaScript truthiness of the values the model passes for query, aggs and
\* searchAfter.
Truthy(x) == x \notin {Undefined, Null}
\* An absent number, and a present one.
NoNumber == {}
Num(n) == {n}

MatchAll == "match_all"
MatchId(id) == "id:" \o id
Queries == {Undefined, Null, MatchAll} \cup {MatchId(id) : id \in Ids}
AggSpecs == {Undefined, "count"}
SearchAfters == {Undefined, "d1"}

\* A search sent to the alias instead of the versioned physical index.
SearchPayload_Alias(logical, query, aggs, size, sort, searchAfter, sourceIncludeFields, sourceExcludeFields) ==
  [index |-> logical,
   _source_excludes |-> sourceExcludeFields,
   _source_includes |-> sourceIncludeFields,
   body |-> [size |-> IF Truthy(aggs) THEN Num(0) ELSE NoNumber,
             query |-> query,
             aggs |-> aggs,
             search_after |-> IF Truthy(searchAfter) THEN <<searchAfter>> ELSE <<>>,
             sort |-> sort],
   size |-> size]
SearchPayload(logical, query, aggs, size, sort, searchAfter, sourceIncludeFields, sourceExcludeFields) ==
  [index |-> VersionedName(logical, IndexVersions[logical]),
   _source_excludes |-> sourceExcludeFields,
   _source_includes |-> sourceIncludeFields,
   body |-> [size |-> IF Truthy(aggs) THEN Num(0) ELSE NoNumber,
             query |-> query,
             aggs |-> aggs,
             search_after |-> IF Truthy(searchAfter) THEN <<searchAfter>> ELSE <<>>,
             sort |-> sort],
   size |-> size]

\* The engine's answer to a search: the visible documents the query matches
\* in the indices the request's name stands for, none of them when the
\* effective size is 0 (the size parameter overrides the body's), and the
\* aggregation result when aggregations were asked for.
Matches(query, id) == query \in {Undefined, Null, MatchAll, MatchId(id)}
EngineSearch(al, payload) ==
  LET size == IF payload.size # NoNumber THEN payload.size ELSE payload.body.size
      targets == EngineResolve(indices, al, payload.index)
      matched == {d \in targets \X Ids : /\ searchable[d[1]][d[2]] # NoDoc
                                         /\ Matches(payload.body.query, d[2])}
      hits == IF size = Num(0) THEN {} ELSE matched
  IN [hits |-> [kind |-> "hits",
                hits |-> {[_id |-> d[2], _source |-> searchable[d[1]][d[2]]] : d \in hits}],
      aggregations |-> IF Truthy(payload.body.aggs)
                         THEN [kind |-> "aggregations", hits |-> {},
                               count |-> Cardinality(matched)]
                         ELSE [kind |-> "undefined", hits |-> {}, count |-> 0]]

\* The status of a search request under the alias table al, and the engine's
\* answer when it has one.
EngineSearchCall(al, payload, fault) ==
  LET status == IF fault THEN 503
                ELSE IF EngineResolve(indices, al, payload.index) = {} THEN 404
                \* the engine rejects search_after without a sort
                ELSE IF payload.body.search_after # <<>> /\ ~Truthy(payload.body.sort)
                  THEN 400
                ELSE 200
  IN [status |-> status,
      data |-> IF status = 200 THEN EngineSearch(al, payload)
               ELSE [hits |-> None, aggregations |-> None]]

\* A search that picks its result by the aggregations argument.
SearchReturn_ByAggs(query, data) ==
  IF data.aggregations.kind = "aggregations" THEN data.aggregations ELSE data.hits
\* What search returns from the engine's answer.
SearchReturn(query, data) ==
  IF Truthy(query) THEN data.hits ELSE data.aggregations

\* What search hands its caller under the alias table al: the status of its
\* request and, when the request was answered, the value it returns.
SearchResult(al, logical, query, aggs, size, sort, searchAfter, sourceIncludeFields, sourceExcludeFields, fault) ==
  LET payload == SearchPayload(logical, query, aggs, size, sort, searchAfter,
                               sourceIncludeFields, sourceExcludeFields)
      e == EngineSearchCall(al, payload, fault)
  IN [status |-> e.status, request |-> payload,
      result |-> IF e.status = 200 THEN SearchReturn(query, e.data) ELSE None]

search(logical, query, aggs, size, sort, searchAfter, sourceIncludeFields, sourceExcludeFields) ==
  \E fault \in BOOLEAN :
    \E r \in {SearchResult(aliases, logical, query, aggs, size, sort, searchAfter, sourceIncludeFields, sourceExcludeFields, fault)} :
      /\ last' = Call("search",
                      [logical |-> logical, query |-> query, aggs |-> aggs], r.request,
                      None, r.status, None, Rethrow(r.status), r.result)
      /\ UNCHANGED <<config, engine, init>>

\* ----------------------------------------------------------- the machine
EmptyEngine ==
  /\ indices = {}
  /\ aliases = [n \in Physical |-> {}]
  /\ stored = [n \in Physical |-> NoDocs]
  /\ searchable = [n \in Physical |-> NoDocs]
  /\ autoCreate = TRUE

Init ==
  /\ IS_DEV_ENV \in BOOLEAN
  /\ IndexVersions \in [OpenSearchIndex -> Versions]
  /\ EmptyEngine
  /\ init = [w \in Workers |-> NotStarted]
  /\ last = NoCall

NextTopology ==
  \/ \E l \in OpenSearchIndex, v \in Versions : createIndexWithVersion(l, v)
  \/ \E n \in Physical, a \in OpenSearchIndex : createAlias(n, a)
  \/ \E n \in Physical, a \in OpenSearchIndex : pointAliasToCorrectIndex(n, a)
  \/ \E s \in Physical, t \in Physical : reIndex(s, t)
  \/ \E n \in Physical : deleteIndex(n)

NextSchema ==
  \/ \E l \in OpenSearchIndex : getIndexSettings(l)
  \/ \E l \in OpenSearchIndex : getIndexMappings(l)
  \/ \E l \in OpenSearchIndex : setIndexMappings(l)

NextInitialize(w) ==
  \/ initialize(w)
  \/ putSettings(w)
  \/ doesIndexExist(w)
  \/ doesAliasExist(w)
  \/ doesAliasPointToIndex(w)
  \/ ensureCreateIndex(w)

\* The batches callers send: up to MaxBatch documents, ids and bodies free.
Documents == [id : Ids, body : Bodies]
Batches == UNION {[1..n -> Documents] : n \in 0..MaxBatch}

NextDocs(l) ==
  \/ \E id \in Ids : removeFromIndex(id, l)
  \/ \E id \in Ids, body \in Bodies : index(id, l, body)
  \/ \E batch \in Batches : bulkIndex(l, batch)
  \/ \E query \in Queries, aggs \in AggSpecs, searchAfter \in SearchAfters :
       search(l, query, aggs, NoNumber, Undefined, searchAfter, Undefined, Undefined)

Next ==
  \/ NextTopology
  \/ NextSchema
  \/ \E w \in Workers : NextInitialize(w)
  \/ \E l \in OpenSearchIndex : NextDocs(l)

Spec == Init /\ [][Next]_vars

\* The engine answers the call worker w awaits.
EngineResponds(w) ==
  \/ putSettings(w)
  \/ doesIndexExist(w)
  \/ doesAliasExist(w)
  \/ doesAliasPointToIndex(w)
  \/ ensureCreateIndex(w)

\* The topology operations from an empty engine.  They read neither the
\* environment flag nor the version table, so one configuration is explored.
InitTopology ==
  /\ Init
  /\ IS_DEV_ENV = FALSE
  /\ IndexVersions = [l \in OpenSearchIndex |-> 1]
SpecTopology == InitTopology /\ [][NextTopology]_vars

\* One service instance bootstrapping against any topology the topology
\* operations can have built.
Topology ==
  /\ indices \in {s \in SUBSET Physical : Cardinality(s) <= MaxIndices}
  /\ aliases \in {al \in [Physical -> SUBSET OpenSearchIndex] :
                    \A n \in Physical \ indices : al[n] = {}}
  /\ stored = [n \in Physical |-> NoDocs]
  /\ searchable = [n \in Physical |-> NoDocs]
InitBoot ==
  /\ IS_DEV_ENV \in BOOLEAN
  /\ IndexVersions \in [OpenSearchIndex -> Versions]
  /\ Topology
  /\ autoCreate \in BOOLEAN
  /\ init = [w \in Workers |-> NotStarted]
  /\ last = NoCall
SpecBoot == InitBoot /\ [][NextInitialize("w1")]_vars
\* The same bootstrap with an engine that answers every call it is sent: each
\* await of initialize() resumes, with a result or with an error.
SpecBootLive ==
  InitBoot /\ [][NextInitialize("w1")]_vars /\ WF_vars(EngineResponds("w1"))

\* The document operations on one logical index, from any state of its
\* physical index: missing or present, auto-creation on or off.
InitDocs ==
  /\ IS_DEV_ENV = FALSE
  /\ IndexVersions \in {f \in [OpenSearchIndex -> Versions] : f["activities"] = 1}
  /\ indices \in SUBSET {VersionedName("members", IndexVersions["members"])}
  /\ aliases = [n \in Physical |-> {}]
  /\ stored = [n \in Physical |-> NoDocs]
  /\ searchable = [n \in Physical |-> NoDocs]
  /\ autoCreate \in BOOLEAN
  /\ init = [w \in Workers |-> NotStarted]
  /\ last = NoCall
SpecDocs == InitDocs /\ [][NextDocs("members")]_vars

\* Every operation of the service on the members index and its first two
\* versions, one document and one query, in any order and with the bootstrap
\* of one instance interleaved: each engine call may be answered or fail.
InitFailures ==
  /\ Init
  /\ IndexVersions = [l \in OpenSearchIndex |-> 1]
NextFailures ==
  \/ createIndexWithVersion("members", 1)
  \/ createAlias(VersionedName("members", 1), "members")
  \/ pointAliasToCorrectIndex(VersionedName("members", 1), "members")
  \/ reIndex(VersionedName("members", 1), VersionedName("members", 2))
  \/ deleteIndex(VersionedName("members", 1))
  \/ getIndexSettings("members")
  \/ getIndexMappings("members")
  \/ setIndexMappings("members")
  \/ NextInitialize("w1")
  \/ removeFromIndex("d1", "members")
  \/ index("d1", "members", "A")
  \/ bulkIndex("members", <<[id |-> "d1", body |-> "A"]>>)
  \/ search("members", MatchAll, Undefined, NoNumber, Undefined, Undefined, Undefined, Undefined)
SpecFailures == InitFailures /\ [][NextFailures]_vars

\* The document operations on the members index while its alias is anywhere:
\* the engine starts with any of the versions of the members index present
\* and the alias bound to none, one or several of them, and the alias is
\* repointed between the calls.
InitAlias ==
  /\ IS_DEV_ENV = FALSE
  /\ IndexVersions \in {f \in [OpenSearchIndex -> Versions] : f["activities"] = 1}
  /\ indices \in SUBSET {VersionedName("members", v) : v \in Versions}
  /\ aliases \in {al \in [Physical -> SUBSET {"members"}] :
                    \A n \in Physical \ indices : al[n] = {}}
  /\ stored = [n \in Physical |-> NoDocs]
  /\ searchable = [n \in Physical |-> NoDocs]
  /\ autoCreate \in BOOLEAN
  /\ init = [w \in Workers |-> NotStarted]
  /\ last = NoCall
NextAlias ==
  \/ \E v \in Versions : pointAliasToCorrectIndex(VersionedName("members", v), "members")
  \/ removeFromIndex("d1", "members")
  \/ \E body \in Bodies : index("d1", "members", body)
  \/ \E body \in Bodies : bulkIndex("members", <<[id |-> "d1", body |-> body]>>)
  \/ \E query \in {Undefined, MatchId("d1")}, aggs \in AggSpecs :
       search("members", query, aggs, NoNumber, Undefined, Undefined, Undefined, Undefined)
SpecAlias == InitAlias /\ [][NextAlias]_vars

\* One service instance bootstrapping while callers write one document to
\* the members index, singly and in a bulk request: the engine starts with auto-creation on (its default) and with each
\* configured physical index missing, present, or present and aliased.
InitServe ==
  /\ IS_DEV_ENV \in BOOLEAN
  /\ IndexVersions \in {f \in [OpenSearchIndex -> Versions] : f["activities"] = 1}
  /\ indices \in SUBSET {VersionedName(l, IndexVersions[l]) : l \in OpenSearchIndex}
  /\ aliases \in {al \in [Physical -> SUBSET OpenSearchIndex] :
                    \A n \in Physical :
                      al[n] \subseteq {l \in OpenSearchIndex :
                                         n \in indices /\ n = VersionedName(l, IndexVersions[l])}}
  /\ stored = [n \in Physical |-> NoDocs]
  /\ searchable = [n \in Physical |-> NoDocs]
  /\ autoCreate = TRUE
  /\ init = [w \in Workers |-> NotStarted]
  /\ last = NoCall
NextServe ==
  \/ NextInitialize("w1")
  \/ index("d1", "members", "A")
  \/ bulkIndex("members", <<[id |-> "d1", body |-> "A"]>>)
SpecServe == InitServe /\ [][NextServe]_vars

\* Two service instances bootstrapping in permissive mode against the same
\* engine, their awaited calls interleaved in any order; each configured
\* physical index starts missing, present, or present and aliased.
InitRace ==
  /\ InitServe
  /\ IS_DEV_ENV = TRUE
NextRace == \E w \in Workers : NextInitialize(w)
SpecRace == InitRace /\ [][NextRace]_vars

\* ------------------------------------------------------------------ claims
\* The physical index the version table configures for a logical index.
Configured(l) == VersionedName(l, IndexVersions[l])
\* The three facts strict mode requires of a logical index.
Bound(l) ==
  /\ Configured(l) \in indices
  /\ ResolveAlias(aliases, l) # {}
  /\ l \in aliases[Configured(l)]

\* C1: in strict mode initialize() reaches Ready only when, for both logical
\* indices, the configured physical index exists, the alias exists and the
\* alias is bound to that index; when one of the three fails for either
\* index, a call that has ended has ended Aborted.
C1_StrictReadyOnlyIfBound ==
  ~IS_DEV_ENV =>
    /\ init["w1"].pc = "Ready" => \A l \in OpenSearchIndex : Bound(l)
    /\ (init["w1"].pc \in {"Ready", "Aborted"} /\ \E l \in OpenSearchIndex : ~Bound(l))
         => init["w1"].pc = "Aborted"
C1_Witness ==
  /\ ~IS_DEV_ENV
  /\ init["w1"].pc = "Ready"
  /\ \A l \in OpenSearchIndex : Bound(l)

\* C2 as stated: after any completed repointAlias call the alias resolves to
\* exactly one physical index.
C2_AsStated ==
  last.op = "pointAliasToCorrectIndex"
    => Cardinality(ResolveAlias(aliases, last.args.aliasName)) = 1
\* C2 amended: after a repointAlias call whose update the engine accepted,
\* the alias resolves to exactly the target index, whatever it resolved to
\* before (nothing, one index or several).
C2_RepointAcceptedIsUnique ==
  (last.op = "pointAliasToCorrectIndex" /\ last.status = 200)
    => ResolveAlias(aliases, last.args.aliasName) = {last.args.indexName}
C2_Witness ==
  /\ last.op = "pointAliasToCorrectIndex"
  /\ last.status = 200
  /\ Cardinality(last.before.resolved) = 2
  /\ ResolveAlias(aliases, last.args.aliasName) = {last.args.indexName}

\* C3 (I1): in every reachable state the alias of each logical index
\* references at most one physical index.
C3_AliasAtMostOne ==
  \A a \in OpenSearchIndex : Cardinality(ResolveAlias(aliases, a)) <= 1

\* C4: a repoint is one engine request carrying the remove-from-all action and
\* the add-to-target action, and it takes the alias from what it resolved to
\* straight to the target or leaves it as it was: no state in which the
\* remove has been applied without the add, so an alias that resolved to one
\* index never resolves to none or to two, and no other alias changes.
C4_RepointAtomic ==
  [][last'.op = "pointAliasToCorrectIndex" =>
       LET a == last'.args.aliasName
           old == ResolveAlias(aliases, a)
           new == ResolveAlias(aliases', a)
       IN /\ last'.request.actions =
               << [type |-> "remove", index |-> "*", alias |-> a],
                  [type |-> "add", index |-> last'.args.indexName, alias |-> a] >>
          /\ new = old \/ new = {last'.args.indexName}
          /\ Cardinality(old) = 1 => Cardinality(new) = 1
          /\ \A b \in OpenSearchIndex \ {a} :
               ResolveAlias(aliases', b) = ResolveAlias(aliases, b)]_vars
C4_Witness ==
  /\ last.op = "pointAliasToCorrectIndex"
  /\ last.status = 200
  /\ Cardinality(last.before.resolved) = 1
  /\ last.args.indexName \notin last.before.resolved
  /\ ResolveAlias(aliases, last.args.aliasName) = {last.args.indexName}

\* What a caller retrieves by id: the hits of search(l, {match id}).
Retrieve(l, id) ==
  SearchReturn(MatchId(id),
               EngineSearch(aliases,
                            SearchPayload(l, MatchId(id), Undefined, NoNumber, Undefined,
                                          Undefined, Undefined, Undefined)))
Hit(id, body) == [kind |-> "hits", hits |-> {[_id |-> id, _source |-> body]}]

\* C5: removeFromIndex, index, bulkIndex and search all send their request to
\* the physical index {logical}_v{version} of the configured version, in
\* every call and whatever was called before.
C5_SameConfiguredTarget ==
  /\ last.op \in {"removeFromIndex", "index", "search"}
       => last.request.index = Configured(last.args.logical)
  /\ last.op = "bulkIndex"
       => \A k \in 1..Len(last.request.body) :
            last.request.body[k].kind = "action"
              => last.request.body[k]._index = Configured(last.args.logical)
C5_Witness ==
  /\ last.op = "search"
  /\ last.outcome = "ok"
  /\ IndexVersions[last.args.logical] = 2
  /\ last.request.index = VersionedName(last.args.logical, 2)
  /\ \E id \in Ids : stored[last.request.index][id] # NoDoc

\* C6: removeFromIndex returns normally whenever the engine answers the
\* delete, with success or with not-found (404): a document that is absent
\* never fails the caller, and a delete repeated right after one that returned
\* is answered not-found and returns again.
C6_RemoveIdempotent ==
  last.op = "removeFromIndex" =>
    /\ last.status \in {200, 404} => last.outcome = "ok"
    /\ last.before.doc = NoDoc => last.status \in {404, 503}
    /\ last.before.again => last.status \in {404, 503}
    /\ last.status # 503 => stored[last.request.index][last.args.id] = NoDoc
C6_Witness ==
  /\ last.op = "removeFromIndex"
  /\ last.before.again
  /\ last.status = 404
  /\ last.outcome = "ok"

\* C7: right after index(id, logical, body) has returned, a search of the same
\* logical index matching the id returns exactly that document: the index
\* exists and search sees what was written.
C7_WriteVisible ==
  (last.op = "index" /\ last.outcome = "ok") =>
    /\ Configured(last.args.logical) \in indices
    /\ Retrieve(last.args.logical, last.args.id) = Hit(last.args.id, last.args.body)
C7_Witness ==
  /\ last.op = "index"
  /\ last.outcome = "ok"
  /\ last.before.exists
  /\ Retrieve(last.args.logical, last.args.id) = Hit(last.args.id, last.args.body)

\* The shape of a bulk request: 2*n records, record 2k-1 (counting from 1) the
\* index-action for the k-th document on the configured physical index and
\* record 2k its body.
BulkShape(c) ==
  LET batch == c.args.batch
      body == c.request.body
  IN /\ Len(body) = 2 * Len(batch)
     /\ \A k \in 1..Len(batch) :
          /\ body[2 * k - 1].kind = "action"
          /\ body[2 * k - 1]._index = Configured(c.args.logical)
          /\ body[2 * k - 1]._id = batch[k].id
          /\ body[2 * k].kind = "source"
          /\ body[2 * k].body = batch[k].body
\* The last document of the batch with the given id.
LastOf(batch, id) ==
  batch[CHOOSE k \in 1..Len(batch) :
          /\ batch[k].id = id
          /\ \A j \in (k + 1)..Len(batch) : batch[j].id # id]

\* C8 as stated: the request has the shape above and, after bulkIndex returns,
\* every document of the batch is retrievable by its id with its own body.
C8_AsStated ==
  last.op = "bulkIndex" =>
    /\ BulkShape(last)
    /\ last.outcome = "ok" =>
         \A k \in 1..Len(last.args.batch) :
           Retrieve(last.args.logical, last.args.batch[k].id)
             = Hit(last.args.batch[k].id, last.args.batch[k].body)
\* C8 amended: the request has the shape above and, after bulkIndex returns
\* with no item reported failed, every id of the batch is retrievable with the
\* body of its last document in the batch: its own body when the ids of the
\* batch are distinct.
C8_BulkRetrievable ==
  last.op = "bulkIndex" =>
    /\ BulkShape(last)
    /\ (last.outcome = "ok" /\ ~last.response.errors) =>
         \A k \in 1..Len(last.args.batch) :
           LET id == last.args.batch[k].id
           IN Retrieve(last.args.logical, id)
                = Hit(id, LastOf(last.args.batch, id).body)
C8_Witness ==
  /\ last.op = "bulkIndex"
  /\ last.outcome = "ok"
  /\ ~last.response.errors
  /\ Len(last.args.batch) = 2
  /\ last.args.batch[1].id # last.args.batch[2].id
  /\ last.args.batch[1].body # last.args.batch[2].body
  /\ \A k \in 1..2 :
       Retrieve(last.args.logical, last.args.batch[k].id)
         = Hit(last.args.batch[k].id, last.args.batch[k].body)

\* C9: search picks what it returns by the truthiness of query alone: the
\* aggregation result when query is falsy and aggregations are given, the hit
\* list when query is truthy even with aggregations given; and the request
\* body carries size 0 whenever aggregations are given.
C9_SearchShape ==
  last.op = "search" =>
    /\ Truthy(last.args.aggs) => last.request.body.size = Num(0)
    /\ last.outcome = "ok" =>
         /\ Truthy(last.args.query) => last.result.kind = "hits"
         /\ (~Truthy(last.args.query) /\ Truthy(last.args.aggs))
              => last.result.kind = "aggregations"
C9_Witness ==
  /\ last.op = "search"
  /\ last.outcome = "ok"
  /\ Truthy(last.args.query)
  /\ Truthy(last.args.aggs)
  /\ last.result.kind = "hits"
  /\ last.request.body.size = Num(0)

\* The calls of ensureIndexAndAliasExists a worker can be waiting on.
Verifying(w) ==
  init[w].pc \in {"doesIndexExist", "doesAliasExist", "doesAliasPointToIndex",
                  "createIndexWithVersion"}

\* C10: initialize() has turned the engine's automatic index creation off
\* before it issues any existence check or index creation, and it stays off;
\* with it off, a write to a physical index that does not exist writes
\* nothing and creates no index: index() throws, and the bulk request is
\* answered with its items reported failed.
C10_AutoCreateOffFirst ==
  /\ (Verifying("w1") \/ init["w1"].pc = "Ready"
        \/ (init["w1"].pc = "Aborted" /\ init["w1"].error = "configuration"))
       => ~autoCreate
  /\ (last.op \in {"index", "bulkIndex"} /\ ~last.before.autoCreate
        /\ ~last.before.exists)
       => /\ Configured(last.args.logical) \notin indices
          /\ stored[Configured(last.args.logical)] = NoDocs
          /\ last.op = "index" => last.outcome = "raised"
          /\ (last.op = "bulkIndex" /\ last.status = 200) => last.response.errors
C10_Witness ==
  /\ init["w1"].pc = "Aborted"
  /\ init["w1"].error = "configuration"
  /\ ~autoCreate
  /\ last.op = "index"
  /\ ~last.before.exists
  /\ last.status = 404
  /\ last.outcome = "raised"
  /\ Configured("members") \notin indices

\* The service operations callers send documents and queries through.
DocumentOps == {"index", "bulkIndex", "removeFromIndex", "search"}
\* The calls worker w has issued of one kind for one logical index.
IssuedCalls(w, call, l) ==
  {k \in 1..Len(init[w].calls) :
     init[w].calls[k].call = call /\ init[w].calls[k].index = l}

\* An operation succeeded: it returned normally, and a bulk request had no
\* item reported failed.
Succeeded(c) ==
  /\ c.outcome = "ok"
  /\ c.op = "bulkIndex" => ~c.response.errors

\* C11 as stated: in strict mode with the alias of a logical index missing,
\* initialize() rejects, and no index, bulkIndex, removeFromIndex or search
\* called after that rejection succeeds.
C11_AsStated ==
  (~IS_DEV_ENV /\ \E l \in OpenSearchIndex : ResolveAlias(aliases, l) = {})
    => /\ init["w1"].pc # "Ready"
       /\ (init["w1"].pc = "Aborted" /\ init["w1"].error = "configuration"
             /\ last.op \in DocumentOps)
            => ~Succeeded(last)

\* C12 as stated: in permissive mode initialize() never rejects: from every
\* topology a call that has ended has ended Ready with the physical index of
\* every logical index present.
C12_AsStated ==
  (IS_DEV_ENV /\ init["w1"].pc \in {"Ready", "Aborted"})
    => /\ init["w1"].pc = "Ready"
       /\ \A l \in OpenSearchIndex : Configured(l) \in indices
\* C12 amended: in permissive mode initialize() rejects only when an engine
\* call failed, never for what is missing; when it ends Ready the physical
\* index of every logical index exists, each index it created was one it had
\* found missing, and an index it found missing it did create.
C12_PermissiveCreatesMissing ==
  IS_DEV_ENV =>
    /\ init["w1"].pc = "Aborted" =>
         /\ init["w1"].error = "engine"
         /\ init["w1"].calls[Len(init["w1"].calls)].status # 200
    /\ init["w1"].pc = "Ready" =>
         /\ \A l \in OpenSearchIndex : Configured(l) \in indices
         /\ \A k \in 1..Len(init["w1"].calls) : init["w1"].calls[k].status = 200
    /\ \A l \in OpenSearchIndex :
         \A k \in IssuedCalls("w1", "createIndexWithVersion", l) :
           init["w1"].calls[k].status = 200 => Configured(l) \in indices
C12_Witness ==
  /\ IS_DEV_ENV
  /\ init["w1"].pc = "Ready"
  /\ \A l \in OpenSearchIndex :
       /\ IssuedCalls("w1", "createIndexWithVersion", l) # {}
       /\ Configured(l) \in indices

\* C13: in permissive mode no step of initialize() changes an alias binding
\* and none of its calls creates or repoints an alias: an alias missing before
\* the bootstrap is missing when it is Ready.
C13_PermissiveLeavesAliases ==
  [][IS_DEV_ENV =>
       /\ aliases' = aliases
       /\ \A k \in 1..Len(init'["w1"].calls) :
            init'["w1"].calls[k].call \in
              {"putSettings", "doesIndexExist", "doesAliasExist",
               "doesAliasPointToIndex", "createIndexWithVersion"}]_vars
C13_Witness ==
  /\ IS_DEV_ENV
  /\ init["w1"].pc = "Ready"
  /\ IssuedCalls("w1", "createIndexWithVersion", "members") # {}
  /\ IssuedCalls("w1", "doesAliasExist", "members") # {}
  /\ ResolveAlias(aliases, "members") = {}
  /\ ResolveAlias(aliases, "activities") = {}

\* C14: pointAliasToCorrectIndex never throws: whether the engine applied the
\* alias update or rejected it, the caller gets the same normal return, with
\* no value.
C14_RepointNeverRaises ==
  last.op = "pointAliasToCorrectIndex"
    => /\ last.outcome = "ok"
       /\ last.result = None
C14_Witness ==
  /\ last.op = "pointAliasToCorrectIndex"
  /\ last.status = 404
  /\ last.outcome = "ok"
  /\ last.args.indexName \notin indices
  /\ ResolveAlias(aliases, last.args.aliasName) = last.before.resolved
  /\ last.before.resolved # {}

\* C17: bulkIndex throws exactly when the bulk call itself failed: a bulk call
\* the engine answered returns normally with no value, whether or not the
\* answer reports failed items.
C17_BulkFailsOnlyWithCall ==
  last.op = "bulkIndex"
    => /\ last.outcome = "raised" <=> last.status # 200
       /\ last.result = None
C17_Witness ==
  /\ last.op = "bulkIndex"
  /\ last.status = 200
  /\ last.response.errors
  /\ last.outcome = "ok"
  /\ Len(last.args.batch) = 2
  /\ \A k \in 1..2 : stored[Configured(last.args.logical)][last.args.batch[k].id] = NoDoc

\* C19: in strict mode no step of initialize() changes the set of physical
\* indices, a document or an alias binding, whether the call ends Ready or
\* Aborted; the automatic-creation setting is all it writes.
C19_StrictMutatesNothing ==
  [][~IS_DEV_ENV =>
       /\ indices' = indices
       /\ aliases' = aliases
       /\ stored' = stored
       /\ searchable' = searchable]_vars
C19_Witness ==
  /\ ~IS_DEV_ENV
  /\ init["w1"].pc = "Aborted"
  /\ init["w1"].error = "configuration"
  /\ IssuedCalls("w1", "doesAliasPointToIndex", "members") # {}
  /\ Configured("members") \notin indices
  /\ ~autoCreate

\* C16: with every engine call answered, a started initialize() ends, in Ready
\* or in Aborted; once ended it stays as it ended; and it issues each
\* existence check and each index creation at most once for each logical
\* index, and putSettings at most once.
C16_TerminatesWithoutRetry ==
  /\ (init["w1"].pc # "start") ~> (init["w1"].pc \in {"Ready", "Aborted"})
  /\ [][init["w1"].pc \in {"Ready", "Aborted"} => init'["w1"] = init["w1"]]_vars
  /\ [](\A k, j \in 1..Len(init["w1"].calls) :
          (init["w1"].calls[k].call = init["w1"].calls[j].call
             /\ init["w1"].calls[k].index = init["w1"].calls[j].index) => k = j)
C16_Witness ==
  /\ init["w1"].pc = "Ready"
  /\ Len(init["w1"].calls) = 7
  /\ \A l \in OpenSearchIndex :
       \A call \in {"doesIndexExist", "doesAliasExist", "doesAliasPointToIndex"} :
         Cardinality(IssuedCalls("w1", call, l)) = 1

\* C15: an engine call that failed makes the operation that sent it throw,
\* for every operation and every failure but two: pointAliasToCorrectIndex,
\* and removeFromIndex answered not-found.  A failed call of initialize()
\* ends it Aborted with the engine's error.
C15_FailuresRaise ==
  (/\ last.status # 200
   /\ last.op \notin {"none", "pointAliasToCorrectIndex"}
   /\ ~(last.op = "removeFromIndex" /\ last.status = NotFound))
    => /\ last.outcome = "raised"
       /\ last.op = "initialize"
            => init["w1"].pc = "Aborted" /\ init["w1"].error = "engine"
C15_Witness ==
  /\ last.op = "removeFromIndex"
  /\ last.status = 503
  /\ last.before.doc # NoDoc
  /\ last.outcome = "raised"
  /\ stored[last.request.index][last.args.id] = last.before.doc

\* The calls of one kind for one logical index that the engine answered with
\* the given status, over all workers.
Answered(call, l, status) ==
  UNION {{<<w, k>> : k \in {j \in IssuedCalls(w, call, l) : init[w].calls[j].status = status}}
           : w \in Workers}
\* No call of any worker was failed by the engine or the transport.
NoEngineFault ==
  \A w \in Workers : \A k \in 1..Len(init[w].calls) : init[w].calls[k].status # 503

\* C20 as stated: two instances bootstrap concurrently in permissive mode with
\* an engine that answers every call; whatever the interleaving, when both
\* calls have ended both are Ready, every configured physical index exists,
\* and no creation was sent for an index that existed.
C20_AsStated ==
  (IS_DEV_ENV /\ NoEngineFault
     /\ \A w \in Workers : init[w].pc \in {"Ready", "Aborted"})
    => /\ \A w \in Workers : init[w].pc = "Ready"
       /\ \A l \in OpenSearchIndex :
            /\ Configured(l) \in indices
            /\ Cardinality(Answered("createIndexWithVersion", l, 200)) <= 1
            /\ Answered("createIndexWithVersion", l, 400) = {}

\* The alias tables that bind the alias of logical index l to any of the
\* indices that exist, and to none.
AliasTables(l) ==
  {al \in [Physical -> SUBSET {l}] : \A n \in Physical \ indices : al[n] = {}}

\* C18: what removeFromIndex, index, bulkIndex and search are answered, what
\* they return and the index contents they leave do not depend on the alias
\* table: in every state, with the same arguments and the same answer of the
\* transport, a run in which the alias of the logical index is anywhere else
\* (missing, bound to the configured index, to another index or to several)
\* gets the same status, the same result and the same indices and documents.
C18_AliasIndependent ==
  \A l \in OpenSearchIndex : \A al \in AliasTables(l), fault \in BOOLEAN :
    /\ \A id \in Ids :
         EngineDelete(al, RemoveRequest(id, l), fault)
           = EngineDelete(aliases, RemoveRequest(id, l), fault)
    /\ \A id \in Ids, body \in Bodies :
         EngineIndex(al, IndexRequest(id, l, body), fault)
           = EngineIndex(aliases, IndexRequest(id, l, body), fault)
    /\ \A batch \in {b \in Batches : Len(b) <= 1} :
         EngineBulkCall(al, BulkRequest(l, batch), fault)
           = EngineBulkCall(aliases, BulkRequest(l, batch), fault)
    /\ \A query \in Queries, aggs \in AggSpecs :
         SearchResult(al, l, query, aggs, NoNumber, Undefined, Undefined, Undefined, Undefined, fault)
           = SearchResult(aliases, l, query, aggs, NoNumber, Undefined, Undefined, Undefined, Undefined, fault)
C18_Witness ==
  /\ last.op = "search"
  /\ last.outcome = "ok"
  /\ last.result = Hit("d1", "B")
  /\ ResolveAlias(aliases, "members") # {}
  /\ Configured("members") \notin ResolveAlias(aliases, "members")
====
